---------------------------- MODULE Spec2Model ----------------------------
(***************************************************************************)
(* A model of the report pipeline of src/main.py: run_pipeline and the    *)
(* helpers it calls (resolve, ensure_path_set, ErrorCollector,             *)
(* coerce_types, validate_configs), together with the constructor of       *)
(* GenericExtractor in src/agents/extract_generic.py.                      *)
(*                                                                         *)
(* Representation.                                                         *)
(*  - A Python value is a record with a tag t: None, a str, a number, a    *)
(*    list or a dict (a function from key to value).                       *)
(*  - A dotted path is kept as the sequence path.split(".") returns:       *)
(*    split is a bijection between strings and non-empty sequences of      *)
(*    dot-free segments, and '"." in k' is Len(k) > 1.                     *)
(*  - A raw cell text is a sequence of one-character strings, so that      *)
(*    strip, replace and float are computed character by character.       *)
(*  - A number is m * 10^(-e), kept normalised (m has no trailing zero     *)
(*    unless e = 0): 0.5 is [m |-> 5, e |-> 1].                            *)
(***************************************************************************)
EXTENDS Integers, Sequences, FiniteSets, TLC

VARIABLES
    pc,             \* position in run_pipeline
    sheet_cfg,      \* sheet_tasks.yaml: sequence of [name, cfg], in file order
    paragraphs,     \* paragraph_tasks.yaml: sequence of [pid, task]
    sheet_names,    \* xls.sheet_names: the workbook's sheets, in workbook order
    template_ok,    \* template/report_template.docx exists
    ec,             \* ErrorCollector.items
    planned,        \* planned_skips returned by validate_configs
    extracted,      \* the nested namespace {Sheet: {field: value}}
    gen_ctx,        \* generated text by paragraph id
    si,             \* index of the next sheet of xls.sheet_names
    pj,             \* index of the next paragraph
    render_ctx,     \* the context handed to write_docx (NoCtx before)
    run_summary,    \* logs/run_summary.json as last written (NoFile before)
    raised,         \* the function whose exception left run_pipeline, or "none"
    fatal,          \* "none", "config" or "input": which sys.exit was taken
    calls,          \* the calls made so far to parser, agents and helpers
    co_in,          \* arguments of the coerce_types call under test
    co_out          \* its result

vars == <<pc, sheet_cfg, paragraphs, sheet_names, template_ok, ec, planned,
          extracted, gen_ctx, si, pj, render_ctx, run_summary, raised, fatal,
          calls, co_in, co_out>>

---------------------------------------------------------------------------
(* Bounds of the model. *)

\* most paragraphs in paragraph_tasks.yaml
MaxParas == 2

\* most fields declared for the coerce_types call under test
MaxFields == 2

\* most add calls made on the ErrorCollector under test
MaxAdds == 3

\* most segments of the path handed to the resolve call under test
MaxDepth == 3

---------------------------------------------------------------------------
(* Python values. *)

Null == [t |-> "null"]
StrV(s) == [t |-> "str", v |-> s]
IntV(n) == [t |-> "int", v |-> n]
NumV(m, e) == [t |-> "num", m |-> m, e |-> e]
ListV(s) == [t |-> "list", v |-> s]
DictV(f) == [t |-> "dict", d |-> f]

EmptyDict == [k \in {} |-> Null]

\* d[k] = v on a dict d
Put(d, k, v) == [x \in (DOMAIN d) \cup {k} |-> IF x = k THEN v ELSE d[x]]

\* the default written by fill mode, "-"
Dash == StrV(<<"-">>)

NoCtx == [t |-> "unset"]
NoFile == [t |-> "nofile"]

---------------------------------------------------------------------------
(* resolve and ensure_path_set. *)

RECURSIVE Walk(_, _)
\* the loop of resolve: descend cur along parts
Walk(cur, parts) ==
    IF parts = <<>> THEN [found |-> TRUE, val |-> cur]
    ELSE IF cur.t = "dict" /\ Head(parts) \in DOMAIN cur.d
         THEN Walk(cur.d[Head(parts)], Tail(parts))
         ELSE [found |-> FALSE, val |-> Null]

\* a variant of resolve that, when not strict, gives the default for a stored
\* None as well
resolve_DefaultForNone(path, data, default, strict) ==
    LET r == Walk(DictV(data), path)
    IN  IF r.found /\ (strict \/ r.val # Null) THEN r.val
        ELSE IF strict THEN Null ELSE default

resolve(path, data, default, strict) ==
    LET r == Walk(DictV(data), path)
    IN  IF r.found THEN r.val ELSE IF strict THEN Null ELSE default

RECURSIVE ensure_path_set_overwriting_leaf_only(_, _, _)
\* a variant that refuses to create the path through a non-dict value
ensure_path_set_overwriting_leaf_only(data, path, value) ==
    IF Len(path) = 1 THEN Put(data, path[1], value)
    ELSE LET p == Head(path)
         IN  IF p \in DOMAIN data /\ data[p].t # "dict" THEN data
             ELSE LET child == IF p \notin DOMAIN data THEN EmptyDict
                               ELSE data[p].d
                  IN  Put(data, p, DictV(ensure_path_set_overwriting_leaf_only(
                                            child, Tail(path), value)))

RECURSIVE ensure_path_set(_, _, _)
ensure_path_set(data, path, value) ==
    IF Len(path) = 1 THEN Put(data, path[1], value)
    ELSE LET p == Head(path)
             child == IF p \notin DOMAIN data \/ data[p].t # "dict"
                      THEN EmptyDict
                      ELSE data[p].d
         IN  Put(data, p, DictV(ensure_path_set(child, Tail(path), value)))

---------------------------------------------------------------------------
(* ErrorCollector. *)

\* A record {"level", "where", "msg"}: where is the tag split at ":", msg is
\* kept as the message's kind plus the unit and the path it names.
Rec(level, where, kind, unit, path) ==
    [level |-> level, where |-> where, kind |-> kind, unit |-> unit,
     path |-> path]

add(items, level, where, kind, unit, path) ==
    Append(items, Rec(level, where, kind, unit, path))

UpperLetters ==
    <<"A", "B", "C", "D", "E", "F", "G", "H", "I", "J", "K", "L", "M",
      "N", "O", "P", "Q", "R", "S", "T", "U", "V", "W", "X", "Y", "Z">>

LowerLetters ==
    <<"a", "b", "c", "d", "e", "f", "g", "h", "i", "j", "k", "l", "m",
      "n", "o", "p", "q", "r", "s", "t", "u", "v", "w", "x", "y", "z">>

\* the lower-case form of each upper-case letter
LowerOf ==
    [c \in {UpperLetters[n] : n \in 1..Len(UpperLetters)} |->
        LowerLetters[CHOOSE n \in 1..Len(UpperLetters) : UpperLetters[n] = c]]

\* str.lower(), character by character
Lower(s) ==
    [i \in 1..Len(s) |->
        IF s[i] \in DOMAIN LowerOf THEN LowerOf[s[i]] ELSE s[i]]

\* str.startswith
StartsWith(s, prefix) ==
    Len(prefix) <= Len(s) /\ SubSeq(s, 1, Len(prefix)) = prefix

\* the characters of a level string
LevelChars(level) ==
    CASE level = "warn" -> <<"w", "a", "r", "n">>
      [] level = "warning" -> <<"w", "a", "r", "n", "i", "n", "g">>
      [] level = "WARN" -> <<"W", "A", "R", "N">>
      [] level = "Warning" -> <<"W", "a", "r", "n", "i", "n", "g">>
      [] level = "warned" -> <<"w", "a", "r", "n", "e", "d">>
      [] level = "war" -> <<"w", "a", "r">>
      [] level = "error" -> <<"e", "r", "r", "o", "r">>
      [] level = "ERROR" -> <<"E", "R", "R", "O", "R">>
      [] level = "info" -> <<"i", "n", "f", "o">>
      [] level = "" -> <<>>

\* it["level"].lower().startswith("warn")
IsWarnLevel(level) ==
    StartsWith(Lower(LevelChars(level)), <<"w", "a", "r", "n">>)

\* a summary that counts as errors only the items whose level is "error"
RECURSIVE CountLevels_KnownOnly(_, _)
CountLevels_KnownOnly(items, counts) ==
    IF items = <<>> THEN counts
    ELSE CountLevels_KnownOnly(
             Tail(items),
             IF IsWarnLevel(Head(items).level)
             THEN [counts EXCEPT !.warnings = @ + 1]
             ELSE IF Lower(LevelChars(Head(items).level))
                        = <<"e", "r", "r", "o", "r">>
                  THEN [counts EXCEPT !.errors = @ + 1]
                  ELSE counts)

summary_KnownLevelsOnly(items) ==
    [counts |-> CountLevels_KnownOnly(items, [errors |-> 0, warnings |-> 0]),
     items |-> items]

\* the loop of summary: each item adds one to one of the two counters
RECURSIVE CountLevels(_, _)
CountLevels(items, counts) ==
    IF items = <<>> THEN counts
    ELSE CountLevels(Tail(items),
                     IF IsWarnLevel(Head(items).level)
                     THEN [counts EXCEPT !.warnings = @ + 1]
                     ELSE [counts EXCEPT !.errors = @ + 1])

summary(items) ==
    [counts |-> CountLevels(items, [errors |-> 0, warnings |-> 0]),
     items |-> items]

---------------------------------------------------------------------------
(* Text: str(), strip, replace, endswith and float, on character sequences. *)

Digits == <<"0", "1", "2", "3", "4", "5", "6", "7", "8", "9">>
IsDigit(c) == \E i \in 1..10 : Digits[i] = c
DigitVal(c) == (CHOOSE i \in 1..10 : Digits[i] = c) - 1

RECURSIVE Pow10(_)
Pow10(n) == IF n = 0 THEN 1 ELSE 10 * Pow10(n - 1)

RECURSIVE IntChars(_)
\* str(n) for an int n >= 0
IntChars(n) ==
    IF n < 10 THEN <<Digits[n + 1]>>
    ELSE IntChars(n \div 10) \o <<Digits[(n % 10) + 1]>>

RECURSIVE PadChars(_, _)
\* n written with exactly w digits
PadChars(n, w) ==
    IF w = 0 THEN <<>>
    ELSE PadChars(n \div 10, w - 1) \o <<Digits[(n % 10) + 1]>>

\* str(x) for a float x = m * 10^(-e) of moderate size: "0.5", "85.0"
FloatChars(m, e) ==
    IntChars(m \div Pow10(e)) \o <<".">>
        \o (IF e = 0 THEN <<"0">> ELSE PadChars(m % Pow10(e), e))

RECURSIVE JoinRepr(_)
RECURSIVE PyStr(_)
\* repr(x) of a list item: a str is quoted
PyRepr(x) == IF x.t = "str" THEN <<"'">> \o x.v \o <<"'">> ELSE PyStr(x)

JoinRepr(s) ==
    IF s = <<>> THEN <<>>
    ELSE IF Len(s) = 1 THEN PyRepr(s[1])
    ELSE PyRepr(s[1]) \o <<",", " ">> \o JoinRepr(Tail(s))

\* str(v)
PyStr(v) ==
    CASE v.t = "str" -> v.v
      [] v.t = "int" -> IntChars(v.v)
      [] v.t = "num" -> FloatChars(v.m, v.e)
      [] v.t = "list" -> <<"[">> \o JoinRepr(v.v) \o <<"]">>
      [] OTHER -> <<"N", "o", "n", "e">>

RECURSIVE LStrip(_)
LStrip(s) == IF s # <<>> /\ Head(s) = " " THEN LStrip(Tail(s)) ELSE s

RECURSIVE RStrip(_)
RStrip(s) ==
    IF s # <<>> /\ s[Len(s)] = " " THEN RStrip(SubSeq(s, 1, Len(s) - 1)) ELSE s

\* s.strip()
Strip(s) == RStrip(LStrip(s))

\* s.endswith(c)
EndsWith(s, c) == s # <<>> /\ s[Len(s)] = c

\* s.replace(c, "")
Remove(s, c) == SelectSeq(s, LAMBDA x : x # c)

\* a number kept normalised: no trailing zero in m unless e = 0
RECURSIVE Norm(_, _)
Norm(m, e) == IF e > 0 /\ m % 10 = 0 THEN Norm(m \div 10, e - 1) ELSE NumV(m, e)

RECURSIVE DigitsValue(_)
DigitsValue(s) ==
    IF s = <<>> THEN 0 ELSE 10 * DigitsValue(SubSeq(s, 1, Len(s) - 1))
                            + DigitVal(s[Len(s)])

\* float(s) on texts of digits, ".", and other characters: digits with at
\* most one "." and at least one digit parse, anything else is ValueError.
\* (Signs, exponents, "_", "inf" and "nan" are outside the alphabet used.)
ParseFloat(s) ==
    LET dots == Len(SelectSeq(s, LAMBDA x : x = "."))
        digs == SelectSeq(s, IsDigit)
        ok == /\ \A i \in 1..Len(s) : IsDigit(s[i]) \/ s[i] = "."
              /\ dots <= 1
              /\ digs # <<>>
        dotAt == IF dots = 1 THEN CHOOSE i \in 1..Len(s) : s[i] = "." ELSE Len(s)
    IN  IF ok THEN [ok |-> TRUE, val |-> Norm(DigitsValue(digs), Len(s) - dotAt)]
        ELSE [ok |-> FALSE, val |-> Null]

\* num / 100.0
Div100(n) == Norm(n.m, n.e + 2)

---------------------------------------------------------------------------
(* coerce_types. *)

\* the body of the loop for one declared field: its value
CoerceField(v, typ, percent_as_fraction) ==
    IF v = Null THEN Null
    ELSE IF typ = "number"
    THEN LET s0 == Strip(PyStr(v))
             is_percent == EndsWith(s0, "%")
             s == Strip(Remove(Remove(s0, ","), "%"))
             f == ParseFloat(s)
         IN  IF ~f.ok THEN Null      \* except Exception: out[k] = None
             ELSE IF is_percent /\ percent_as_fraction THEN Div100(f.val)
             ELSE f.val
    ELSE IF typ = "array[string]"
    THEN IF v.t = "list"
         THEN ListV([i \in 1..Len(v.v) |-> StrV(PyStr(v.v[i]))])
         ELSE ListV(<<StrV(PyStr(v))>>)
    ELSE StrV(PyStr(v))

\* values.get(k, None)
Get(values, k) == IF k \in DOMAIN values THEN values[k] ELSE Null

\* a variant of coerce_types that keeps only the declared fields the answer
\* holds
coerce_types_ReturnedOnly(sheet, values, type_spec, percent_as_fraction) ==
    [k \in {type_spec[i].k : i \in 1..Len(type_spec)} \cap DOMAIN values |->
        LET i == CHOOSE i \in 1..Len(type_spec) : type_spec[i].k = k
        IN  CoerceField(values[k], type_spec[i].t, percent_as_fraction)]

\* type_spec is the keys mapping as the sequence of its (field, type) items
coerce_types(sheet, values, type_spec, percent_as_fraction) ==
    [k \in {type_spec[i].k : i \in 1..Len(type_spec)} |->
        LET i == CHOOSE i \in 1..Len(type_spec) : type_spec[i].k = k
        IN  CoerceField(Get(values, k), type_spec[i].t, percent_as_fraction)]

---------------------------------------------------------------------------
(* The configuration tables as yaml.safe_load returns them. *)

\* A sheet task that is not a mapping (a scalar or a list in the YAML).
SheetNotObject == [obj |-> FALSE]

\* A sheet task {"prompt": ..., "keys": ...}.  prompt is "absent" (no or an
\* empty "prompt"), "nofile" (names a file that does not exist) or "ok".
SheetTask(prompt, keys) == [obj |-> TRUE, prompt |-> prompt, keys |-> keys]

\* "keys" as a mapping, kept as the sequence of its (field, type) items; a
\* missing "keys" reads as the empty mapping (cfg.get("keys", {})).
KeysDict(items) == [dict |-> TRUE, items |-> items]

\* "keys" given as a non-empty YAML list instead of a mapping.
KeysList == [dict |-> FALSE, items |-> <<>>]

KV(k, t) == [k |-> k, t |-> t]

\* A paragraph task that is not a mapping.
ParaNotObject == [obj |-> FALSE]

\* A paragraph task {"mode": ..., "prompt": ..., "keys": ...}.  mode is
\* "absent", "generate", "fill" or "other"; prompt is "absent" (key not
\* there), "nofile" or "ok".
ParaTask(mode, prompt, keys) ==
    [obj |-> TRUE, mode |-> mode, prompt |-> prompt, keys |-> keys]

\* "keys" as a list of items: a dotted path, or something that is no string.
KeyPaths(items) == [list |-> TRUE, items |-> items]
PathItem(parts) == [str |-> TRUE, parts |-> parts]
NonStrItem == [str |-> FALSE, parts |-> <<>>]

\* "keys" given as a number: truthy, no list, not iterable.
KeysScalar == [list |-> FALSE, items |-> <<>>]

\* task.get("mode") or ("generate" if "prompt" in task else "fill")
ModeOf(task) ==
    IF task.mode # "absent" THEN task.mode
    ELSE IF task.prompt # "absent" THEN "generate" ELSE "fill"

\* the names configured in sheet_tasks.yaml
CfgNames(cfg) == {cfg[i].name : i \in 1..Len(cfg)}

\* sheet_cfg[sheet]
CfgOf(cfg, sheet) ==
    cfg[CHOOSE i \in 1..Len(cfg) : cfg[i].name = sheet].cfg

SeqRange(s) == {s[i] : i \in 1..Len(s)}

---------------------------------------------------------------------------
(* validate_configs.  The state of the walk is [planned, ec, raised]:      *)
(* raised is set when a statement raises, and nothing runs after it.       *)

SupportedTypes == {"string", "number", "array[string]"}

SkipSheet(st, sname) ==
    [st EXCEPT !.planned.sheets = @ \cup {sname}]

SkipPara(st, pid) ==
    [st EXCEPT !.planned.paragraphs = @ \cup {pid}]

\* a variant of validation that records nothing
Warn_Dropped(st, kind, unit, path) == st

Warn(st, kind, unit, path) ==
    [st EXCEPT !.ec = add(@, "warn", <<"CONFIG">>, kind, unit, path)]

RECURSIVE TypeWarnings(_, _, _)
\* for k, t in keys.items(): warn on a type that is not supported
TypeWarnings(st, sname, items) ==
    IF items = <<>> THEN st
    ELSE TypeWarnings(
            IF Head(items).t \notin SupportedTypes
            THEN Warn(st, "sheet_type_unsupported", sname, <<Head(items).k>>)
            ELSE st,
            sname, Tail(items))

\* lines 187-194: the keys check and the loop over keys.items(), which
\* raises AttributeError when keys is no mapping
ValidateSheetKeys(st, sname, cfg) ==
    LET s2 == IF ~cfg.keys.dict \/ cfg.keys.items = <<>>
              THEN SkipSheet(Warn(st, "sheet_keys_invalid", sname, <<>>), sname)
              ELSE st
    IN  IF ~cfg.keys.dict THEN [s2 EXCEPT !.raised = TRUE]
        ELSE TypeWarnings(s2, sname, cfg.keys.items)

\* one pass of the loop of section 2
ValidateSheet(st, sname, cfg) ==
    IF ~cfg.obj
    THEN SkipSheet(Warn(st, "sheet_not_object", sname, <<>>), sname)
    ELSE IF cfg.prompt = "absent"
    THEN SkipSheet(Warn(st, "sheet_no_prompt", sname, <<>>), sname)
    ELSE ValidateSheetKeys(
            IF cfg.prompt = "nofile"
            THEN SkipSheet(Warn(st, "sheet_prompt_file_missing", sname, <<>>),
                           sname)
            ELSE st,
            sname, cfg)

RECURSIVE ValidateSheets(_, _, _)
ValidateSheets(st, cfg, i) ==
    IF i > Len(cfg) \/ st.raised THEN st
    ELSE ValidateSheets(ValidateSheet(st, cfg[i].name, cfg[i].cfg), cfg, i + 1)

\* a variant of the alignment pass that plans the skip without a record
AlignSheet_Silent(st, sname, excel_sheets) ==
    IF sname \notin excel_sheets THEN SkipSheet(st, sname) ELSE st

\* one pass of the loop of section 3
AlignSheet(st, sname, excel_sheets) ==
    IF sname \notin excel_sheets
    THEN SkipSheet(Warn(st, "sheet_not_in_excel", sname, <<>>), sname)
    ELSE st

RECURSIVE AlignSheets(_, _, _, _)
AlignSheets(st, cfg, excel_sheets, i) ==
    IF i > Len(cfg) \/ st.raised THEN st
    ELSE AlignSheets(AlignSheet(st, cfg[i].name, excel_sheets), cfg,
                     excel_sheets, i + 1)

RECURSIVE PathWarnings(_, _, _)
\* for k in keys or []: '"." not in k' raises TypeError on a non-string
PathWarnings(st, pid, items) ==
    IF items = <<>> \/ st.raised THEN st
    ELSE PathWarnings(
            IF ~Head(items).str THEN [st EXCEPT !.raised = TRUE]
            ELSE IF Len(Head(items).parts) = 1
            THEN Warn(st, "para_key_no_separator", pid, Head(items).parts)
            ELSE st,
            pid, Tail(items))

\* one pass of the loop of section 4
ValidateParagraph(st, pid, task) ==
    IF ~task.obj
    THEN SkipPara(Warn(st, "para_not_object", pid, <<>>), pid)
    ELSE IF ModeOf(task) \notin {"generate", "fill"}
    THEN SkipPara(Warn(st, "para_bad_mode", pid, <<>>), pid)
    ELSE LET s1 == IF ~task.keys.list
                   THEN Warn(st, "para_keys_not_list", pid, <<>>)
                   ELSE st
             keys == IF task.keys.list THEN task.keys.items ELSE <<>>
         IN  IF ModeOf(task) = "generate" /\ task.prompt = "absent"
             THEN SkipPara(Warn(s1, "para_no_prompt", pid, <<>>), pid)
             ELSE PathWarnings(
                    IF ModeOf(task) = "generate" /\ task.prompt = "nofile"
                    THEN SkipPara(Warn(s1, "para_prompt_file_missing", pid,
                                       <<>>), pid)
                    ELSE s1,
                    pid, keys)

RECURSIVE ValidateParagraphs(_, _, _)
ValidateParagraphs(st, paras, i) ==
    IF i > Len(paras) \/ st.raised THEN st
    ELSE ValidateParagraphs(ValidateParagraph(st, paras[i].pid, paras[i].task),
                            paras, i + 1)

\* validate_configs(config_dir, sheet_cfg, paragraphs, xls, ec): the plan, the
\* collector's items, and whether an exception left the function
validate_configs(tpl_exists, cfg, paras, xls_names, items) ==
    LET s0 == [planned |-> [sheets |-> {}, paragraphs |-> {}],
               ec |-> IF tpl_exists THEN items
                      ELSE add(items, "error", <<"CONFIG">>,
                               "template_missing", "", <<>>),
               raised |-> FALSE]
        s2 == ValidateSheets(s0, cfg, 1)
        s3 == AlignSheets(s2, cfg, SeqRange(xls_names), 1)
    IN  ValidateParagraphs(s3, paras, 1)

---------------------------------------------------------------------------
(* The agents as run_pipeline calls them. *)

\* a call made by run_pipeline: what was called, for which sheet or paragraph,
\* with which path or result, and whether it returned ("ok") or raised
Call(op, unit, arg, res) == [op |-> op, unit |-> unit, arg |-> arg, res |-> res]

\* def __init__(self, df, keys, prompt_path, provider=None, config_dir=...)
ExtractorInitParams == {"df", "keys", "prompt_path", "provider", "config_dir"}
ExtractorInitRequired == {"df", "keys", "prompt_path"}

\* the keyword arguments of the call get_extractor("GenericExtractor")(...)
ExtractorCallKwargs == {"df", "keys", "prompt_path", "config_dir", "provider",
                        "sheet_name"}

\* Python binds a keyword call: every keyword names a parameter and every
\* parameter without default is given; otherwise TypeError.
BindsOk(kwargs, params, required) ==
    kwargs \subseteq params /\ required \subseteq kwargs

\* GenericExtractor.extract on the completion's tool calls (the arguments of
\* each, already json.loads-ed): the first one's arguments, or None when
\* there is no tool call (the function falls off its end).
extract(tool_calls) ==
    IF tool_calls # <<>> THEN DictV(tool_calls[1]) ELSE Null

\* extractor.extract() or {}
OrEmpty(v) == IF v = Null \/ v = DictV(EmptyDict) THEN EmptyDict ELSE v.d

\* a variant of the merge in which the namespace wins a collision
Merge_FirstWins(a, b) ==
    [k \in (DOMAIN a) \cup (DOMAIN b) |-> IF k \in DOMAIN a THEN a[k] ELSE b[k]]

\* {**extracted, **gen_ctx}
Merge(a, b) ==
    [k \in (DOMAIN a) \cup (DOMAIN b) |-> IF k \in DOMAIN b THEN b[k] ELSE a[k]]

---------------------------------------------------------------------------
(* The body of the sheet loop (lines 277-302): the try block on one sheet.  *)
(* parse, provider and reply are what the workbook parser, apply_provider  *)
(* and the completion service do on this call.                             *)

ExtractTry(sheet, cfg, data, log, parse, provider, reply) ==
    LET binds == BindsOk(ExtractorCallKwargs, ExtractorInitParams,
                         ExtractorInitRequired)
        log1 == Append(log, Call("parse", sheet, Null, parse))
        log2 == Append(log1, Call("construct_extractor", sheet, Null,
                                  IF binds THEN provider ELSE "TypeError"))
        log3 == Append(log2, Call("extract", sheet,
                                  IF reply.kind = "raise" THEN Null
                                  ELSE extract(reply.tool_calls),
                                  IF reply.kind = "raise" THEN "raise"
                                  ELSE "ok"))
        fail(l) == [ok |-> FALSE, extracted |-> data, calls |-> l]
    IN  IF parse = "raise" THEN fail(log1)
        ELSE IF ~binds \/ provider = "raise" THEN fail(log2)
        ELSE IF reply.kind = "raise" THEN fail(log3)
        ELSE LET raw_values == OrEmpty(extract(reply.tool_calls))
                 cleaned == coerce_types(sheet, raw_values, cfg.keys.items,
                                         TRUE)
             IN  [ok |-> TRUE,
                  extracted |-> Put(data, sheet, DictV(cleaned)),
                  calls |-> Append(log3, Call("coerce_types", sheet,
                                              DictV(raw_values), "ok"))]

---------------------------------------------------------------------------
(* The body of the paragraph loop (lines 312-358): the try block.          *)

RECURSIVE ResolveAll(_, _, _, _)
\* the comprehension of line 317 over the items of keys: the missing paths,
\* or raised when an item is no string (path.split)
ResolveAll(items, data, pid, acc) ==
    IF items = <<>> THEN acc
    ELSE IF ~Head(items).str THEN [acc EXCEPT !.raised = TRUE]
    ELSE LET k == Head(items).parts
             isNone == resolve(k, data, Null, TRUE) = Null
         IN  ResolveAll(Tail(items), data, pid,
                [missing |-> IF isNone THEN Append(acc.missing, k)
                             ELSE acc.missing,
                 calls |-> Append(acc.calls,
                                  Call("resolve", pid, ListV(k), "ok")),
                 raised |-> FALSE])

RECURSIVE FillDefaults(_, _, _)
\* for miss in missing: ensure_path_set(extracted, miss, "-"); ec.add(...)
FillDefaults(st, pid, missing) ==
    IF missing = <<>> THEN st
    ELSE FillDefaults(
            [extracted |-> ensure_path_set(st.extracted, Head(missing), Dash),
             ec |-> add(st.ec, "warn", <<"FILL", pid>>, "fill_default", pid,
                        Head(missing)),
             calls |-> Append(st.calls, Call("ensure_path_set", pid,
                                             ListV(Head(missing)), "ok"))],
            pid, Tail(missing))

\* a variant of the missing-dependency branch that generates all the same
SkipsGeneration_Never(mode, missing) == FALSE

\* if missing and mode == "generate"
SkipsGeneration(mode, missing) == missing # <<>> /\ mode = "generate"

\* gen is what the generator agent does on this call: its constructor raises,
\* generate() raises, or generate() returns a text
\* (a fill-mode paragraph ends with the record of its values, lines 347-354)
ParaTry(pid, task, data, texts, items, log, gen) ==
    LET mode == ModeOf(task)
        failed(l) == [extracted |-> data, gen_ctx |-> texts, calls |-> l,
                      ec |-> add(items, "error", <<"PARA", pid>>,
                                 "para_failed", pid, <<>>)]
        r == ResolveAll(task.keys.items, data, pid,
                        [missing |-> <<>>, calls |-> log, raised |-> FALSE])
        log2 == Append(r.calls,
                       Call("construct_generator", pid, Null,
                            IF gen.kind = "ctor_raise" THEN "raise" ELSE "ok"))
        log3 == Append(log2,
                       Call("generate", pid, Null,
                            IF gen.kind = "generate_raise" THEN "raise"
                            ELSE "ok"))
    IN  IF ~task.keys.list THEN failed(log)
        ELSE IF r.raised THEN failed(r.calls)
        ELSE IF SkipsGeneration(mode, r.missing)
        THEN [extracted |-> data, gen_ctx |-> texts, calls |-> r.calls,
              ec |-> add(items, "warn", <<"PARA", pid>>, "missing_fields",
                         pid, <<>>)]
        ELSE IF mode = "generate"
        THEN IF gen.kind = "ctor_raise" THEN failed(log2)
             ELSE IF gen.kind = "generate_raise" THEN failed(log3)
             ELSE [extracted |-> data,
                   gen_ctx |-> Put(texts, pid, StrV(gen.text)),
                   calls |-> log3, ec |-> items]
        ELSE LET f == FillDefaults([extracted |-> data, ec |-> items,
                                    calls |-> r.calls], pid, r.missing)
             IN  [extracted |-> f.extracted, gen_ctx |-> texts,
                  calls |-> Append(f.calls,
                                   Call("fill_values", pid, Null, "ok")),
                  ec |-> f.ec]

---------------------------------------------------------------------------
(* What the collaborators may do on a call. *)

SheetIds == <<"Safety", "Cost">>
ParaIds == <<"Intro", "Safety", "Outro", "Annex">>

ParseOutcomes == {"ok", "raise"}
ProviderOutcomes == {"ok", "raise"}

\* the completion's answers to an extraction: an error, no tool call, or
\* tool calls with these arguments
ExtractReplies ==
    {[kind |-> "raise", tool_calls |-> <<>>],
     [kind |-> "reply", tool_calls |-> <<>>],
     [kind |-> "reply",
      tool_calls |-> <<[k \in {"Rate"} |-> StrV(<<"5", "0", "%">>)]>>],
     [kind |-> "reply",
      tool_calls |-> <<[k \in {"Rate"} |-> StrV(<<"a", "b", "c">>)]>>],
     [kind |-> "reply",
      tool_calls |-> <<[k \in {"Other"} |-> IntV(7)]>>]}

GeneratorOutcomes ==
    {[kind |-> "ctor_raise", text |-> <<>>],
     [kind |-> "generate_raise", text |-> <<>>],
     [kind |-> "text", text |-> <<"T">>]}

---------------------------------------------------------------------------
(* run_pipeline, one action per step. *)

Dump(items) == summary(items)

\* lines 244-254: both tables load, or the run records it, dumps and exits
LoadYaml ==
    /\ pc = "load_yaml"
    /\ \E ok \in BOOLEAN :
         IF ok
         THEN /\ pc' = "find_excel"
              /\ UNCHANGED <<ec, run_summary, fatal>>
         ELSE /\ ec' = add(ec, "error", <<"CONFIG">>, "yaml_failed", "", <<>>)
              /\ run_summary' = Dump(ec')
              /\ fatal' = "config"
              /\ pc' = "exit"
    /\ UNCHANGED <<sheet_cfg, paragraphs, sheet_names, template_ok, planned,
                   extracted, gen_ctx, si, pj, render_ctx, raised, calls,
                   co_in, co_out>>

\* lines 257-262: the workbook is found, or the run records it, dumps and exits
FindExcel ==
    /\ pc = "find_excel"
    /\ \E ok \in BOOLEAN :
         IF ok
         THEN /\ pc' = "validate"
              /\ UNCHANGED <<ec, run_summary, fatal>>
         ELSE /\ ec' = add(ec, "error", <<"INPUT">>, "no_excel", "", <<>>)
              /\ run_summary' = Dump(ec')
              /\ fatal' = "input"
              /\ pc' = "exit"
    /\ UNCHANGED <<sheet_cfg, paragraphs, sheet_names, template_ok, planned,
                   extracted, gen_ctx, si, pj, render_ctx, raised, calls,
                   co_in, co_out>>

\* line 265: no try surrounds the call, so an exception leaves run_pipeline
Validate ==
    /\ pc = "validate"
    /\ LET r == validate_configs(template_ok, sheet_cfg, paragraphs,
                                 sheet_names, ec)
       IN  /\ ec' = r.ec
           /\ IF r.raised
              THEN /\ raised' = "validate_configs"
                   /\ pc' = "crashed"
                   /\ UNCHANGED planned
              ELSE /\ planned' = r.planned
                   /\ pc' = "extract"
                   /\ UNCHANGED raised
    /\ UNCHANGED <<sheet_cfg, paragraphs, sheet_names, template_ok, extracted,
                   gen_ctx, si, pj, render_ctx, run_summary, fatal, calls,
                   co_in, co_out>>

\* a variant of the loop's guard that ignores the plan
SheetIsSkipped_IgnoringPlan(sheet) == sheet \notin CfgNames(sheet_cfg)

\* lines 270-275: the two continue statements
SheetIsSkipped(sheet) ==
    sheet \notin CfgNames(sheet_cfg) \/ sheet \in planned.sheets

\* a variant of the except clause that records nothing
ExtractFailure_Silent(items, sheet) == items

\* line 301
ExtractFailure(items, sheet) ==
    add(items, "error", <<"EXTRACT", sheet>>, "extract_failed", sheet, <<>>)

\* lines 269-302: one pass of the loop over xls.sheet_names
ExtractSheet ==
    /\ pc = "extract"
    /\ si <= Len(sheet_names)
    /\ LET sheet == sheet_names[si]
       IN  IF SheetIsSkipped(sheet)
           THEN UNCHANGED <<ec, extracted, calls>>
           ELSE \E parse \in ParseOutcomes, provider \in ProviderOutcomes,
                   reply \in ExtractReplies :
                  LET r == ExtractTry(sheet, CfgOf(sheet_cfg, sheet), extracted,
                                      calls, parse, provider, reply)
                  IN  /\ extracted' = r.extracted
                      /\ calls' = r.calls
                      /\ ec' = IF r.ok THEN ec ELSE ExtractFailure(ec, sheet)
    /\ si' = si + 1
    /\ UNCHANGED <<pc, sheet_cfg, paragraphs, sheet_names, template_ok,
                   planned, gen_ctx, pj, render_ctx, run_summary, raised,
                   fatal, co_in, co_out>>

\* the loop over the sheets ends; line 305
ExtractDone ==
    /\ pc = "extract"
    /\ si > Len(sheet_names)
    /\ pc' = "paragraphs"
    /\ gen_ctx' = EmptyDict
    /\ UNCHANGED <<sheet_cfg, paragraphs, sheet_names, template_ok, ec,
                   planned, extracted, si, pj, render_ctx, run_summary,
                   raised, fatal, calls, co_in, co_out>>

\* lines 308-310
ParaIsSkipped(pid) == pid \in planned.paragraphs

\* lines 307-358: one pass of the loop over the paragraphs
ProcessParagraph ==
    /\ pc = "paragraphs"
    /\ pj <= Len(paragraphs)
    /\ LET pid == paragraphs[pj].pid
           task == paragraphs[pj].task
       IN  IF ParaIsSkipped(pid)
           THEN UNCHANGED <<ec, extracted, gen_ctx, calls>>
           ELSE \E gen \in GeneratorOutcomes :
                  LET r == ParaTry(pid, task, extracted, gen_ctx, ec, calls, gen)
                  IN  /\ extracted' = r.extracted
                      /\ gen_ctx' = r.gen_ctx
                      /\ ec' = r.ec
                      /\ calls' = r.calls
    /\ pj' = pj + 1
    /\ UNCHANGED <<pc, sheet_cfg, paragraphs, sheet_names, template_ok,
                   planned, si, render_ctx, run_summary, raised, fatal,
                   co_in, co_out>>

\* the loop over the paragraphs ends
ParagraphsDone ==
    /\ pc = "paragraphs"
    /\ pj > Len(paragraphs)
    /\ pc' = "render"
    /\ UNCHANGED <<sheet_cfg, paragraphs, sheet_names, template_ok, ec,
                   planned, extracted, gen_ctx, si, pj, render_ctx,
                   run_summary, raised, fatal, calls, co_in, co_out>>

\* lines 361-368: write_docx raises when the template is missing, and may
\* raise on its own
Render ==
    /\ pc = "render"
    /\ render_ctx' = DictV(Merge(extracted, gen_ctx))
    /\ \E renderer \in {"ok", "raise"} :
         LET res == IF template_ok THEN renderer ELSE "raise"
         IN  /\ calls' = Append(calls, Call("write_docx", "", Null, res))
             /\ ec' = IF res = "ok" THEN ec
                      ELSE add(ec, "error", <<"RENDER">>, "render_failed", "",
                               <<>>)
    /\ pc' = "dump"
    /\ UNCHANGED <<sheet_cfg, paragraphs, sheet_names, template_ok, planned,
                   extracted, gen_ctx, si, pj, run_summary, raised, fatal,
                   co_in, co_out>>

\* line 371
Summarize ==
    /\ pc = "dump"
    /\ run_summary' = Dump(ec)
    /\ calls' = Append(calls, Call("dump", "", Null, "ok"))
    /\ pc' = "done"
    /\ UNCHANGED <<sheet_cfg, paragraphs, sheet_names, template_ok, ec,
                   planned, extracted, gen_ctx, si, pj, render_ctx, raised,
                   fatal, co_in, co_out>>

Next ==
    \/ LoadYaml
    \/ FindExcel
    \/ Validate
    \/ ExtractSheet
    \/ ExtractDone
    \/ ProcessParagraph
    \/ ParagraphsDone
    \/ Render
    \/ Summarize

---------------------------------------------------------------------------
(* The inputs of a run: the two tables, the workbook, the template. *)

\* the sequences without repetition over a set
DistinctSeqs(S) ==
    {q \in UNION {[1..n -> S] : n \in 0..Cardinality(S)} :
        \A i, j \in 1..Len(q) : i # j => q[i] # q[j]}

\* the tables over the sheet ids, each entry shaped as one of shapes
SheetTables(shapes) ==
    UNION {{[i \in 1..Len(q) |-> [name |-> q[i], cfg |-> c[i]]] :
                c \in [1..Len(q) -> shapes]} :
           q \in DistinctSeqs(SeqRange(SheetIds))}

\* the tables of at most MaxParas paragraphs, each shaped as one of shapes
ParaTables(shapes) ==
    UNION {{[i \in 1..n |-> [pid |-> ParaIds[i], task |-> c[i]]] :
                c \in [1..n -> shapes]} :
           n \in 0..MaxParas}

RateNumber == KeysDict(<<KV("Rate", "number")>>)

SheetShapes ==
    {SheetNotObject,
     SheetTask("ok", RateNumber),
     SheetTask("ok", KeysDict(<<KV("Rate", "date")>>)),
     SheetTask("ok", KeysDict(<<>>)),
     SheetTask("ok", KeysList),
     SheetTask("nofile", RateNumber),
     SheetTask("absent", KeysList)}

SR == PathItem(<<"Safety", "Rate">>)
SRS == PathItem(<<"Safety", "Rate", "Sub">>)
S1 == PathItem(<<"Safety">>)

\* a generate-mode task with its prompt file, and a fill-mode task
Gen(items) == ParaTask("absent", "ok", KeyPaths(items))
Fill(items) == ParaTask("absent", "absent", KeyPaths(items))

\* the paragraph shapes of the runs that vary the sheets
ParaShapesLite ==
    {ParaNotObject,
     Gen(<<SR>>),
     Fill(<<SR>>)}

\* the paragraph shapes of the runs that vary the paragraphs
ParaShapes ==
    {ParaNotObject,
     ParaTask("other", "absent", KeyPaths(<<SR>>)),
     ParaTask("generate", "absent", KeyPaths(<<SR>>)),
     ParaTask("generate", "nofile", KeyPaths(<<SR>>)),
     ParaTask("fill", "ok", KeysScalar),
     Gen(<<>>),
     Gen(<<SR>>),
     Gen(<<SR, SRS>>),
     Fill(<<>>),
     Fill(<<SR>>),
     Fill(<<SRS>>),
     Fill(<<S1>>),
     Fill(<<SR, SR>>),
     Fill(<<SR, SRS>>),
     Fill(<<SRS, SR>>),
     Fill(<<NonStrItem>>)}

NoCall == [made |-> FALSE]

\* the state at the first line of run_pipeline, the inputs apart
Start ==
    /\ pc = "load_yaml"
    /\ ec = <<>>
    /\ planned = [sheets |-> {}, paragraphs |-> {}]
    /\ extracted = EmptyDict
    /\ gen_ctx = EmptyDict
    /\ si = 1
    /\ pj = 1
    /\ render_ctx = NoCtx
    /\ run_summary = NoFile
    /\ raised = "none"
    /\ fatal = "none"
    /\ calls = <<>>
    /\ co_in = NoCall
    /\ co_out = NoCall

\* runs that vary the sheet table and the workbook
SheetRuns ==
    /\ sheet_cfg \in SheetTables(SheetShapes)
    /\ sheet_names \in DistinctSeqs(SeqRange(SheetIds))
    /\ paragraphs \in ParaTables(ParaShapesLite)
    /\ template_ok \in BOOLEAN

\* runs that vary the paragraph table
ParaRuns ==
    /\ sheet_cfg \in {<<>>, <<[name |-> "Safety",
                             cfg |-> SheetTask("ok", RateNumber)]>>}
    /\ sheet_names \in {<<>>, <<"Safety">>}
    /\ paragraphs \in ParaTables(ParaShapes)
    /\ template_ok \in BOOLEAN

Init == Start /\ (SheetRuns \/ ParaRuns)

Spec == Init /\ [][Next]_vars

---------------------------------------------------------------------------
(* coerce_types on its own: lines 293-294 of run_pipeline, entered with     *)
(* what extract() returned.                                                *)

FieldIds == <<"Rate", "Name", "Tags">>

DeclaredTypes == {"number", "string", "array[string]", "date"}

\* what a field of the extractor's answer may hold; Null also stands for a
\* field the answer does not have
RawSamples ==
    {Null,
     StrV(<<"5", "0", "%">>),
     StrV(<<"a", "b", "c">>),
     StrV(<<"1", ",", "2", "3", "4", ".", "5">>),
     StrV(<<" ", "7", " ">>),
     IntV(7),
     ListV(<<StrV(<<"a">>), IntV(7)>>)}

\* the keys mappings over the first n field ids
TypeSpecs ==
    UNION {{[i \in 1..n |-> KV(FieldIds[i], ty[i])] :
                ty \in [1..n -> DeclaredTypes]} :
           n \in 1..MaxFields}

\* the answers over the declared fields, with or without an undeclared one
RawAnswers(type_spec) ==
    {[k \in {type_spec[i].k : i \in 1..Len(type_spec)} \cup extra |->
        IF k \in extra THEN IntV(7)
        ELSE raw[CHOOSE i \in 1..Len(type_spec) : type_spec[i].k = k]] :
     raw \in [1..Len(type_spec) -> RawSamples], extra \in {{}, {"Extra"}}}

InitCoerce ==
    /\ Start
    /\ sheet_cfg = <<>>
    /\ sheet_names = <<>>
    /\ paragraphs = <<>>
    /\ template_ok = TRUE

\* the extractor's answer arrives: coerce_types is about to be called
CoerceEnter ==
    /\ pc = "load_yaml"
    /\ \E type_spec \in TypeSpecs, paf \in BOOLEAN :
         \E values \in RawAnswers(type_spec) :
            co_in' = [made |-> TRUE, sheet |-> "Safety", values |-> values,
                      type_spec |-> type_spec, percent_as_fraction |-> paf]
    /\ pc' = "coerce"
    /\ UNCHANGED <<sheet_cfg, paragraphs, sheet_names, template_ok, ec,
                   planned, extracted, gen_ctx, si, pj, render_ctx,
                   run_summary, raised, fatal, calls, co_out>>

\* cleaned = coerce_types(...); extracted[sheet] = cleaned
CoerceCall ==
    /\ pc = "coerce"
    /\ co_out' = [made |-> TRUE,
                  cleaned |-> coerce_types(co_in.sheet, co_in.values,
                                           co_in.type_spec,
                                           co_in.percent_as_fraction)]
    /\ extracted' = Put(extracted, co_in.sheet, DictV(co_out'.cleaned))
    /\ pc' = "coerced"
    /\ UNCHANGED <<sheet_cfg, paragraphs, sheet_names, template_ok, ec,
                   planned, gen_ctx, si, pj, render_ctx, run_summary, raised,
                   fatal, calls, co_in>>

NextCoerce == CoerceEnter \/ CoerceCall

SpecCoerce == InitCoerce /\ [][NextCoerce]_vars

---------------------------------------------------------------------------
(* ErrorCollector on its own: any sequence of add calls, with summary()     *)
(* called at any point between them.                                       *)

\* the level strings handed to add
LevelSamples ==
    {"warn", "WARN", "warned", "war", "error", "info", ""}

\* the tags handed to add
WhereSamples == {<<"CONFIG">>, <<"EXTRACT", "Safety">>}

InitCollector ==
    /\ Start
    /\ sheet_cfg = <<>>
    /\ sheet_names = <<>>
    /\ paragraphs = <<>>
    /\ template_ok = TRUE

\* ec.add(level, where, msg)
CollectorAdd ==
    /\ pc \in {"load_yaml", "added", "summarized"}
    /\ Len(ec) < MaxAdds
    /\ \E level \in LevelSamples, where \in WhereSamples :
         /\ ec' = add(ec, level, where, "msg", "", <<>>)
         /\ calls' = Append(calls, Call("add", "",
                                        Rec(level, where, "msg", "", <<>>),
                                        "ok"))
    /\ pc' = "added"
    /\ UNCHANGED <<sheet_cfg, paragraphs, sheet_names, template_ok, planned,
                   extracted, gen_ctx, si, pj, render_ctx, run_summary,
                   raised, fatal, co_in, co_out>>

\* ec.summary()
CollectorSummary ==
    /\ pc \in {"load_yaml", "added"}
    /\ run_summary' = summary(ec)
    /\ pc' = "summarized"
    /\ UNCHANGED <<sheet_cfg, paragraphs, sheet_names, template_ok, ec,
                   planned, extracted, gen_ctx, si, pj, render_ctx, raised,
                   fatal, calls, co_in, co_out>>

NextCollector == CollectorAdd \/ CollectorSummary

SpecCollector == InitCollector /\ [][NextCollector]_vars

---------------------------------------------------------------------------
(* resolve on its own: one call on a namespace, a path, a default and the   *)
(* strict flag.                                                            *)

PathSegments == {"Safety", "Rate", "Sub", "Cost"}

\* the paths of at most MaxDepth segments
PathSamples == UNION {[1..n -> PathSegments] : n \in 1..MaxDepth}

Leaf(k, v) == [x \in {k} |-> v]

\* namespaces: empty, a number leaf, a None leaf, a string where a mapping is
\* expected, a None sheet, three levels, two sheets
NamespaceSamples ==
    {EmptyDict,
     Leaf("Safety", DictV(Leaf("Rate", NumV(5, 1)))),
     Leaf("Safety", DictV(Leaf("Rate", Null))),
     Leaf("Safety", Dash),
     Leaf("Safety", Null),
     Leaf("Safety", DictV(Leaf("Rate", DictV(Leaf("Sub", Dash))))),
     Put(Leaf("Safety", DictV(Leaf("Rate", ListV(<<Dash>>)))), "Cost",
         DictV(EmptyDict))}

DefaultSamples == {Null, Dash, IntV(0)}

InitResolve ==
    /\ Start
    /\ sheet_cfg = <<>>
    /\ sheet_names = <<>>
    /\ paragraphs = <<>>
    /\ template_ok = TRUE

\* resolve is about to be called on a namespace
ResolveEnter ==
    /\ pc = "load_yaml"
    /\ \E data \in NamespaceSamples, path \in PathSamples,
          default \in DefaultSamples, strict \in BOOLEAN :
         /\ extracted' = data
         /\ co_in' = [made |-> TRUE, path |-> path, data |-> data,
                      default |-> default, strict |-> strict]
    /\ pc' = "resolve"
    /\ UNCHANGED <<sheet_cfg, paragraphs, sheet_names, template_ok, ec,
                   planned, gen_ctx, si, pj, render_ctx, run_summary, raised,
                   fatal, calls, co_out>>

\* resolve(path, data, default, strict): data is only read
ResolveCall ==
    /\ pc = "resolve"
    /\ co_out' = [made |-> TRUE,
                  value |-> resolve(co_in.path, extracted, co_in.default,
                                    co_in.strict)]
    /\ pc' = "resolved"
    /\ UNCHANGED <<sheet_cfg, paragraphs, sheet_names, template_ok, ec,
                   planned, extracted, gen_ctx, si, pj, render_ctx,
                   run_summary, raised, fatal, calls, co_in>>

NextResolve == ResolveEnter \/ ResolveCall

SpecResolve == InitResolve /\ [][NextResolve]_vars

---------------------------------------------------------------------------
(* extract() and what run_pipeline does with its result (lines 290-294),   *)
(* for an extractor that was constructed.                                  *)

\* the arguments of a tool call
ArgumentSamples ==
    {[k \in {"Rate"} |-> StrV(<<"5", "0", "%">>)],
     [k \in {"Rate", "Extra"} |-> IntV(7)],
     [k \in {"Name"} |-> StrV(<<"a", "b", "c">>)]}

\* the completion's tool calls: none, one or two
ToolCallSamples ==
    UNION {[1..n -> ArgumentSamples] : n \in 0..2}

InitExtract ==
    /\ Start
    /\ sheet_cfg = <<>>
    /\ sheet_names = <<>>
    /\ paragraphs = <<>>
    /\ template_ok = TRUE

\* the completion service has answered
ExtractEnter ==
    /\ pc = "load_yaml"
    /\ \E type_spec \in TypeSpecs, tool_calls \in ToolCallSamples :
         co_in' = [made |-> TRUE, sheet |-> "Safety", type_spec |-> type_spec,
                   tool_calls |-> tool_calls]
    /\ pc' = "extract_call"
    /\ UNCHANGED <<sheet_cfg, paragraphs, sheet_names, template_ok, ec,
                   planned, extracted, gen_ctx, si, pj, render_ctx,
                   run_summary, raised, fatal, calls, co_out>>

\* extractor.extract() returns
ExtractReturn ==
    /\ pc = "extract_call"
    /\ co_out' = [made |-> TRUE, returned |-> extract(co_in.tool_calls)]
    /\ pc' = "extract_returned"
    /\ UNCHANGED <<sheet_cfg, paragraphs, sheet_names, template_ok, ec,
                   planned, extracted, gen_ctx, si, pj, render_ctx,
                   run_summary, raised, fatal, calls, co_in>>

\* raw_values = ... or {}; cleaned = coerce_types(...); extracted[sheet] =
\* cleaned
InsertCleaned ==
    /\ pc = "extract_returned"
    /\ extracted' = Put(extracted, co_in.sheet,
                        DictV(coerce_types(co_in.sheet,
                                           OrEmpty(co_out.returned),
                                           co_in.type_spec, TRUE)))
    /\ pc' = "inserted"
    /\ UNCHANGED <<sheet_cfg, paragraphs, sheet_names, template_ok, ec,
                   planned, gen_ctx, si, pj, render_ctx, run_summary, raised,
                   fatal, calls, co_in, co_out>>

NextExtract == ExtractEnter \/ ExtractReturn \/ InsertCleaned

SpecExtract == InitExtract /\ [][NextExtract]_vars

---------------------------------------------------------------------------
(* Properties. *)

\* run_pipeline has returned, exited or been left by an exception
Terminated == pc \in {"done", "exit", "crashed"}

\* the calls of kind op, in order
CallsOf(op) == SelectSeq(calls, LAMBDA c : c.op = op)

\* ErrorCollector.dump was executed after the render step
DumpedAfterRender ==
    \E i, j \in 1..Len(calls) :
        i < j /\ calls[i].op = "write_docx" /\ calls[j].op = "dump"

\* C1: a run in which both tables load and the workbook is found (neither
\* fatal exit is taken) ends only after the render step and the dump that
\* follows it, whatever the shape of the tables' entries and whatever fails.
C1_ReachesSummary ==
    (Terminated /\ fatal = "none") => DumpedAfterRender

\* C2: validate_configs never raises: no run is left by an exception of
\* validate_configs, it returns its plan.
C2_ValidateNeverRaises ==
    raised # "validate_configs"

\* the paths probed in the namespace: every path of one to three segments
Segments == {"Safety", "Rate", "Sub"}
ProbePaths == UNION {[1..n -> Segments] : n \in 1..3}

\* the paragraph loop is about to process a paragraph that is not in the plan
AtParagraph == pc = "paragraphs" /\ pj <= Len(paragraphs)
CurPid == paragraphs[pj].pid
CurTask == paragraphs[pj].task
AtLiveParagraph == AtParagraph /\ ~ParaIsSkipped(CurPid) /\ CurTask.obj

\* C3: processing a fill-mode paragraph only adds keys: every path present
\* in the namespace before still leads to the same value afterwards (a
\* mapping stays a mapping, any other value, None included, stays equal).
C3_FillOnlyAddsMissingKeys ==
    [][(AtLiveParagraph /\ ModeOf(CurTask) = "fill") =>
         \A p \in ProbePaths :
            LET b == Walk(DictV(extracted), p)
                a == Walk(DictV(extracted'), p)
            IN  b.found =>
                  /\ a.found
                  /\ IF b.val.t = "dict" THEN a.val.t = "dict"
                     ELSE a.val = b.val]_vars

\* a declared number field whose text float() rejects
FailsToParse(v, typ) ==
    /\ typ = "number"
    /\ v # Null
    /\ ~ParseFloat(Strip(Remove(Remove(Strip(PyStr(v)), ","), "%"))).ok

WarnCount(items) == Len(SelectSeq(items, LAMBDA r : IsWarnLevel(r.level)))
ErrorCount(items) == Len(SelectSeq(items, LAMBDA r : ~IsWarnLevel(r.level)))

\* the declared fields of the call under test that fail to parse
FailingFields ==
    {i \in 1..Len(co_in.type_spec) :
        FailsToParse(Get(co_in.values, co_in.type_spec[i].k),
                     co_in.type_spec[i].t)}

\* C4: when number fields fail to parse, coerce_types returns None for each
\* of them, every other declared field is still in the result (with a value
\* when its raw value is not None), and the run's diagnostic list has gained
\* exactly one warning per failure.
C4_CoercionFailureWarned ==
    pc = "coerced" =>
        /\ \A i \in 1..Len(co_in.type_spec) :
             LET k == co_in.type_spec[i].k
             IN  /\ k \in DOMAIN co_out.cleaned
                 /\ i \in FailingFields => co_out.cleaned[k] = Null
                 /\ (i \notin FailingFields /\ Get(co_in.values, k) # Null)
                        => co_out.cleaned[k] # Null
        /\ WarnCount(ec) = Cardinality(FailingFields)

\* the run of C5: one sheet "Safety" with Rate: number, present in the
\* workbook, one fill-mode paragraph on Safety.Rate, prompt and template there
C5_Scenario ==
    /\ sheet_cfg = <<[name |-> "Safety", cfg |-> SheetTask("ok", RateNumber)]>>
    /\ sheet_names = <<"Safety">>
    /\ paragraphs = <<[pid |-> "Intro", task |-> Fill(<<SR>>)]>>
    /\ template_ok

\* no collaborator failed: the parser, apply_provider, the completion service
\* and the renderer returned, and every extraction answered Rate = "50%"
C5_CollaboratorsFine ==
    \A i \in 1..Len(calls) :
        /\ calls[i].op \in {"parse", "extract", "write_docx"}
              => calls[i].res = "ok"
        /\ calls[i].op = "construct_extractor" => calls[i].res # "raise"
        /\ calls[i].op = "extract"
              => calls[i].arg = DictV([k \in {"Rate"} |-> StrV(<<"5", "0", "%">>)])

\* C5: that run ends with Safety.Rate = 0.5 in the render context and with
\* no error-level record.
C5_EndToEnd ==
    (C5_Scenario /\ pc = "done" /\ C5_CollaboratorsFine) =>
        /\ resolve(<<"Safety", "Rate">>, render_ctx.d, Null, TRUE) = NumV(5, 1)
        /\ ErrorCount(ec) = 0

\* validate_configs has returned its plan
Validated == pc \in {"extract", "paragraphs", "render", "dump", "done"}

\* the kinds of record that are about a sheet
SheetKinds ==
    {"sheet_not_object", "sheet_no_prompt", "sheet_prompt_file_missing",
     "sheet_keys_invalid", "sheet_type_unsupported", "sheet_not_in_excel",
     "extract_failed"}

\* the records appended because of sheet s
SheetRecords(s) ==
    SelectSeq(ec, LAMBDA r : r.kind \in SheetKinds /\ r.unit = s)

\* sheet s has a well-formed task: a prompt file and a non-empty mapping of
\* supported types
ValidlyConfigured(s) ==
    /\ s \in CfgNames(sheet_cfg)
    /\ LET cfg == CfgOf(sheet_cfg, s)
       IN  /\ cfg.obj
           /\ cfg.prompt = "ok"
           /\ cfg.keys.dict
           /\ cfg.keys.items # <<>>
           /\ \A i \in 1..Len(cfg.keys.items) :
                 cfg.keys.items[i].t \in SupportedTypes

\* the validly configured sheets that the workbook does not have
AbsentSheets ==
    {s \in CfgNames(sheet_cfg) :
        ValidlyConfigured(s) /\ s \notin SeqRange(sheet_names)}

ExtractionOps == {"parse", "construct_extractor", "extract", "coerce_types"}
ParagraphOps == {"resolve", "construct_generator", "generate",
                 "ensure_path_set", "fill_values"}

\* the calls in log of the kinds ops made for unit
CallsFor(log, ops, unit) ==
    SelectSeq(log, LAMBDA c : c.op \in ops /\ c.unit = unit)

\* a default was injected at a path that starts with s
InjectedUnder(s) ==
    \E i \in 1..Len(calls) :
        calls[i].op = "ensure_path_set" /\ calls[i].arg.v[1] = s

\* C6, as claimed: a validly configured sheet absent from the workbook has
\* exactly one record, a warning, and its name is never a key of the
\* namespace.
C6_AbsentSheetNeverAKey ==
    Validated =>
        \A s \in AbsentSheets :
            /\ Len(SheetRecords(s)) = 1
            /\ WarnCount(SheetRecords(s)) = 1
            /\ s \notin DOMAIN extracted

\* C6, amended: such a sheet has exactly one record, a warning; no extractor
\* is constructed or called for it; its name is no key of the namespace while
\* the extraction phase runs and when it ends; afterwards its name is a key
\* exactly when a fill-mode paragraph has injected a default at a path that
\* starts with it.
C6_AbsentSheetKeyOnlyByFill ==
    Validated =>
        \A s \in AbsentSheets :
            /\ Len(SheetRecords(s)) = 1
            /\ WarnCount(SheetRecords(s)) = 1
            /\ CallsFor(calls, ExtractionOps, s) = <<>>
            /\ pc = "extract" => s \notin DOMAIN extracted
            /\ s \in DOMAIN extracted <=> InjectedUnder(s)

\* an absent sheet whose name a fill-mode paragraph has made a key, in a run
\* that also processed a generate-mode paragraph depending on it
C6_Witness ==
    /\ pc = "done"
    /\ \E s \in AbsentSheets :
         /\ s \in DOMAIN extracted
         /\ \E i \in 1..Len(ec) : ec[i].kind = "missing_fields"

\* the items of the current paragraph's keys are all dotted paths
CurKeysArePaths ==
    /\ CurTask.keys.list
    /\ \A i \in 1..Len(CurTask.keys.items) : CurTask.keys.items[i].str

\* the positions of the current paragraph's keys whose path resolves
\* (strict) to None in the namespace as it is now
MissingNow ==
    {i \in 1..Len(CurTask.keys.items) :
        resolve(CurTask.keys.items[i].parts, extracted, Null, TRUE) = Null}

\* C7: when a generate-mode paragraph that is not in the plan is processed
\* and one of its paths resolves (strict) to None, no generator is
\* constructed or called for it, nothing is stored under its id, exactly one
\* record is appended, a warning tagged PARA:<id>, the namespace is left as
\* it is, and the loop moves on to the next paragraph.
C7_GenerateSkippedOnMissing ==
    [][(AtLiveParagraph /\ ModeOf(CurTask) = "generate" /\ CurKeysArePaths
            /\ MissingNow # {})
        => /\ CallsFor(calls', {"construct_generator", "generate"}, CurPid)
                = <<>>
           /\ CurPid \notin DOMAIN gen_ctx'
           /\ gen_ctx' = gen_ctx
           /\ ec' = Append(ec, Rec("warn", <<"PARA", CurPid>>,
                                   "missing_fields", CurPid, <<>>))
           /\ extracted' = extracted
           /\ pc' = "paragraphs"
           /\ pj' = pj + 1]_vars

\* a run of two paragraphs whose first was skipped for a missing dependency
\* and whose second was processed
C7_Witness ==
    /\ pc = "done"
    /\ Len(paragraphs) = 2
    /\ \E i \in 1..Len(ec) :
         ec[i] = Rec("warn", <<"PARA", paragraphs[1].pid>>, "missing_fields",
                     paragraphs[1].pid, <<>>)
    /\ CallsFor(calls, ParagraphOps, paragraphs[2].pid) # <<>>

IsPrefix(a, b) == Len(a) <= Len(b) /\ SubSeq(b, 1, Len(a)) = a

\* two different paths of which one starts the other
PrefixRelated(a, b) == a # b /\ (IsPrefix(a, b) \/ IsPrefix(b, a))

\* the missing positions whose path is prefix-related to no other missing path
MissingUnrelated ==
    {i \in MissingNow :
        \A j \in MissingNow :
            ~PrefixRelated(CurTask.keys.items[i].parts,
                           CurTask.keys.items[j].parts)}

\* the step appends one warning tagged FILL:<id> per missing position, in
\* order, and makes one injection per missing position
OneWarningPerInjection ==
    /\ Len(ec') = Len(ec) + Cardinality(MissingNow)
    /\ SubSeq(ec', 1, Len(ec)) = ec
    /\ \A n \in (Len(ec) + 1)..Len(ec') :
         /\ ec'[n].level = "warn"
         /\ ec'[n].where = <<"FILL", CurPid>>
    /\ Len(CallsFor(calls', {"ensure_path_set"}, CurPid))
         = Len(CallsFor(calls, {"ensure_path_set"}, CurPid))
             + Cardinality(MissingNow)

\* C8, as claimed: when a fill-mode paragraph that is not in the plan is
\* processed, every declared path that resolved to None resolves to "-"
\* afterwards, and one warning is appended per injected default.
C8_FillInjectsEveryDefault ==
    [][(AtLiveParagraph /\ ModeOf(CurTask) = "fill" /\ CurKeysArePaths)
        => /\ \A i \in MissingNow :
                resolve(CurTask.keys.items[i].parts, extracted', Null, TRUE)
                    = Dash
           /\ OneWarningPerInjection]_vars

\* C8, amended: every declared path that resolved to None and is
\* prefix-related to no other declared path that resolved to None resolves
\* to "-" afterwards, and one warning is appended per injected default (one
\* per declared occurrence of a path that resolved to None).
C8_FillInjectsUnrelatedDefaults ==
    [][(AtLiveParagraph /\ ModeOf(CurTask) = "fill" /\ CurKeysArePaths)
        => /\ \A i \in MissingUnrelated :
                resolve(CurTask.keys.items[i].parts, extracted', Null, TRUE)
                    = Dash
           /\ OneWarningPerInjection]_vars

\* a fill-mode paragraph with two declared paths, one a prefix of the other,
\* has injected both defaults, and an unrelated default of another paragraph
\* or of this one is in place
C8_Witness ==
    /\ pc = "done"
    /\ \E j \in 1..Len(paragraphs) :
         LET t == paragraphs[j].task
         IN  /\ t.obj /\ ModeOf(t) = "fill" /\ t.keys.list
             /\ Len(t.keys.items) = 2
             /\ t.keys.items[1].str /\ t.keys.items[2].str
             /\ PrefixRelated(t.keys.items[1].parts, t.keys.items[2].parts)
             /\ Len(CallsFor(calls, {"ensure_path_set"}, paragraphs[j].pid)) = 2
             /\ resolve(t.keys.items[2].parts, extracted, Null, TRUE) = Dash

\* no call of an excluded phase was made for a unit of the plan, and no text
\* is stored for a paragraph of the plan
PlanRespected ==
    /\ \A s \in planned.sheets : CallsFor(calls, ExtractionOps, s) = <<>>
    /\ \A p \in planned.paragraphs :
         /\ CallsFor(calls, ParagraphOps, p) = <<>>
         /\ p \notin DOMAIN gen_ctx

\* C9: once validate_configs has returned it, the plan never changes, and no
\* later step parses, constructs an extractor for, extracts or coerces a
\* sheet of the plan, nor resolves, generates, injects or stores a text for
\* a paragraph of the plan.
C9_PlanFixedAndRespected ==
    [][(Validated => planned' = planned) /\ PlanRespected']_vars

\* a finished run whose plan holds a sheet of the workbook and a paragraph,
\* and that extracted another sheet and processed another paragraph
C9_Witness ==
    /\ pc = "done"
    /\ planned.sheets \cap SeqRange(sheet_names) # {}
    /\ planned.paragraphs # {}
    /\ CallsOf("parse") # <<>>
    /\ CallsOf("resolve") # <<>>

\* a step of the extraction of sheet s raised
ExtractionRaised(s) ==
    \E i \in 1..Len(calls) :
        /\ calls[i].op \in ExtractionOps
        /\ calls[i].unit = s
        /\ calls[i].res # "ok"

\* the error records tagged EXTRACT:<s>
ExtractErrors(s) ==
    SelectSeq(ec, LAMBDA r : r.where = <<"EXTRACT", s>> /\ r.level = "error")

\* the loop over the sheets has ended
ExtractionOver ==
    \/ pc \in {"paragraphs", "render", "dump", "done"}
    \/ pc = "extract" /\ si > Len(sheet_names)

\* C10: a sheet whose extraction raised at any step has exactly one error
\* record tagged EXTRACT:<sheet> (a sheet whose extraction did not raise has
\* none) and no entry in the namespace while the extraction phase runs and
\* when it ends; and when the phase has ended every sheet of the workbook
\* that is configured and not in the plan was processed, whatever failed
\* before it.
C10_ExtractFailureIsolated ==
    /\ \A s \in SeqRange(sheet_names) :
         /\ Len(ExtractErrors(s)) = IF ExtractionRaised(s) THEN 1 ELSE 0
         /\ (ExtractionRaised(s) /\ pc = "extract") => s \notin DOMAIN extracted
    /\ (Validated /\ ExtractionOver) =>
         \A i \in 1..Len(sheet_names) :
            ~SheetIsSkipped(sheet_names[i])
                => CallsFor(calls, {"parse"}, sheet_names[i]) # <<>>

\* the extraction phase has ended on a workbook of two sheets: the first
\* one's extraction raised and the second was still processed
C10_Witness ==
    /\ pc = "extract"
    /\ si > Len(sheet_names)
    /\ Len(sheet_names) = 2
    /\ ExtractionRaised(sheet_names[1])
    /\ CallsFor(calls, {"parse"}, sheet_names[2]) # <<>>

\* the records handed to add so far, in the order of the calls
AddedRecords ==
    LET adds == SelectSeq(calls, LAMBDA c : c.op = "add")
    IN  [i \in 1..Len(adds) |-> adds[i].arg]

\* C11: after any sequence of add calls with any level strings the items are
\* exactly the added records in the order they were added, and what
\* summary() has just returned holds those items and counts whose errors and
\* warnings add up to their number.
C11_CountsCoverItems ==
    /\ ec = AddedRecords
    /\ pc = "summarized" =>
         /\ run_summary.items = AddedRecords
         /\ run_summary.counts.errors + run_summary.counts.warnings
              = Len(run_summary.items)

\* summary() was called after three adds whose levels are a warning in
\* capitals, a level that is neither a warning nor "error", and the empty
\* string
C11_Witness ==
    /\ pc = "summarized"
    /\ Len(ec) = 3
    /\ \E i, j, k \in 1..3 :
         /\ ec[i].level = "WARN"
         /\ ec[j].level = "info"
         /\ ec[k].level = ""
    /\ run_summary.counts = [errors |-> 2, warnings |-> 1]

\* the kinds of record that are about a paragraph
ParaKinds ==
    {"para_not_object", "para_bad_mode", "para_keys_not_list",
     "para_no_prompt", "para_prompt_file_missing", "para_key_no_separator",
     "missing_fields", "para_failed", "fill_default"}

\* the records appended because of paragraph p
ParaRecords(p) ==
    SelectSeq(ec, LAMBDA r : r.kind \in ParaKinds /\ r.unit = p)

\* the extraction phase wrote an entry for sheet s (line 294 follows the
\* return of coerce_types)
ExtractedByPhase(s) ==
    \E i \in 1..Len(calls) :
        /\ calls[i].op = "coerce_types"
        /\ calls[i].unit = s
        /\ calls[i].res = "ok"

\* paragraph p went through its generate branch or its fill branch
GeneratedOrFilled(p) ==
    \/ p \in DOMAIN gen_ctx
    \/ CallsFor(calls, {"fill_values"}, p) # <<>>

\* C12: when a run has reached the end of run_pipeline, every configured
\* sheet for which the extraction phase wrote no entry and every configured
\* paragraph that was neither generated nor filled has at least one record
\* that was appended because of it.
C12_NoSilentDrop ==
    pc = "done" =>
        /\ \A s \in CfgNames(sheet_cfg) :
             ~ExtractedByPhase(s) => SheetRecords(s) # <<>>
        /\ \A j \in 1..Len(paragraphs) :
             ~GeneratedOrFilled(paragraphs[j].pid)
                => ParaRecords(paragraphs[j].pid) # <<>>

\* a finished run with a sheet whose extraction failed, a paragraph skipped
\* by validation and a paragraph that failed or was skipped while processed
C12_Witness ==
    /\ pc = "done"
    /\ \E i \in 1..Len(ec) : ec[i].kind = "extract_failed"
    /\ planned.paragraphs # {}
    /\ \E i \in 1..Len(ec) : ec[i].kind \in {"para_failed", "missing_fields"}
    /\ \E j \in 1..Len(paragraphs) : ~GeneratedOrFilled(paragraphs[j].pid)

\* the position of unit x in the sequence names
DeclaredAt(names, x) == CHOOSE n \in 1..Len(names) : names[n] = x

\* the names of the sheet table and the ids of the paragraph table, in the
\* order of the files
DeclaredSheets == [i \in 1..Len(sheet_cfg) |-> sheet_cfg[i].name]
DeclaredParas == [j \in 1..Len(paragraphs) |-> paragraphs[j].pid]

\* the calls of the kinds ops follow the order of names: a call for a unit
\* is never followed by a call for a unit declared before it
FollowsOrder(ops, names) ==
    \A i, j \in 1..Len(calls) :
        (i < j /\ calls[i].op \in ops /\ calls[j].op \in ops)
            => DeclaredAt(names, calls[i].unit)
                 <= DeclaredAt(names, calls[j].unit)

\* C13: the calls made for the sheets follow the order of the sheet table,
\* the calls made for the paragraphs follow the order of the paragraph
\* table, and no call for a sheet comes after a call for a paragraph.
C13_DeclaredOrder ==
    /\ FollowsOrder(ExtractionOps, DeclaredSheets)
    /\ FollowsOrder(ParagraphOps, DeclaredParas)
    /\ \A i, j \in 1..Len(calls) :
         (calls[i].op \in ParagraphOps /\ calls[j].op \in ExtractionOps)
            => j < i

\* C14: the context handed to the renderer has the keys of the namespace
\* and the ids of the generated texts and no other; under an id with a
\* generated text it holds that text, also when the id is a key of the
\* namespace, and under any other key it holds the namespace's value.
C14_GeneratedTextWins ==
    render_ctx # NoCtx =>
        /\ DOMAIN render_ctx.d = (DOMAIN extracted) \cup (DOMAIN gen_ctx)
        /\ \A k \in DOMAIN render_ctx.d :
             render_ctx.d[k] = IF k \in DOMAIN gen_ctx THEN gen_ctx[k]
                               ELSE extracted[k]

\* the renderer was handed a context in which a paragraph id with a
\* generated text is also a key of the namespace
C14_Witness ==
    /\ render_ctx # NoCtx
    /\ CallsOf("write_docx") # <<>>
    /\ \E k \in (DOMAIN extracted) \cap (DOMAIN gen_ctx) :
         /\ extracted[k] # gen_ctx[k]
         /\ render_ctx.d[k] = gen_ctx[k]

\* path without its last segment
Front(path) == SubSeq(path, 1, Len(path) - 1)

RECURSIVE StoredAt(_, _)
\* the value a namespace stores at a path all of whose segments exist, read
\* from the last segment back
StoredAt(data, path) ==
    IF Len(path) = 1 THEN data[path[1]]
    ELSE StoredAt(data, Front(path)).d[path[Len(path)]]

RECURSIVE AllSegmentsExist(_, _)
\* every segment of path is a key of the mapping the segments before it
\* lead to
AllSegmentsExist(data, path) ==
    IF Len(path) = 1 THEN path[1] \in DOMAIN data
    ELSE /\ AllSegmentsExist(data, Front(path))
         /\ StoredAt(data, Front(path)).t = "dict"
         /\ path[Len(path)] \in DOMAIN StoredAt(data, Front(path)).d

\* C15: when resolve has returned, the namespace is as it was; if all the
\* segments of the path exist the result is the stored value, whatever the
\* strict flag and the default (a stored None is returned as None); if a
\* segment is missing or a value before the last segment is no mapping, the
\* result is None when strict and the default otherwise.
C15_ResolveExact ==
    pc = "resolved" =>
        /\ extracted = co_in.data
        /\ AllSegmentsExist(co_in.data, co_in.path)
             => co_out.value = StoredAt(co_in.data, co_in.path)
        /\ ~AllSegmentsExist(co_in.data, co_in.path)
             => co_out.value = IF co_in.strict THEN Null ELSE co_in.default

\* a non-strict call with default "-" on a path that leads to a stored None
\* has returned None
C15_Witness ==
    /\ pc = "resolved"
    /\ ~co_in.strict
    /\ co_in.default = Dash
    /\ Len(co_in.path) = 2
    /\ AllSegmentsExist(co_in.data, co_in.path)
    /\ StoredAt(co_in.data, co_in.path) = Null
    /\ co_out.value = Null

\* C16: when the completion made no tool call, extract() returns an empty
\* mapping, and once run_pipeline has used the result the sheet's entry
\* holds None under every declared field and there is no error record.
C16_NoToolCallGivesEmptyMapping ==
    (co_in.made /\ co_out.made /\ co_in.tool_calls = <<>>) =>
        /\ co_out.returned = DictV(EmptyDict)
        /\ pc = "inserted" =>
             /\ co_in.sheet \in DOMAIN extracted
             /\ \A i \in 1..Len(co_in.type_spec) :
                  extracted[co_in.sheet].d[co_in.type_spec[i].k] = Null
             /\ ErrorCount(ec) = 0

\* the paths at which the paragraphs processed so far injected a default
InjectedPaths ==
    {calls[i].arg.v : i \in {n \in 1..Len(calls) :
                                calls[n].op = "ensure_path_set"}}

\* C17: when a paragraph that is not in the plan is processed, every path at
\* which an earlier fill-mode paragraph injected the default resolves to a
\* value that is not None; and if the paragraph is in generate mode and all
\* its paths are such injected paths, it is not skipped: its generator is
\* constructed.
C17_DefaultsLeak ==
    [][(AtLiveParagraph /\ CurKeysArePaths)
        => /\ \A p \in InjectedPaths :
                resolve(p, extracted, Null, TRUE) # Null
           /\ (/\ ModeOf(CurTask) = "generate"
               /\ \A i \in 1..Len(CurTask.keys.items) :
                    CurTask.keys.items[i].parts \in InjectedPaths)
                => CallsFor(calls', {"construct_generator"}, CurPid) # <<>>]_vars

\* the fields declared for the sheet under test, and the fields of the
\* answer run_pipeline coerces ("extract() or {}")
DeclaredFields == {co_in.type_spec[i].k : i \in 1..Len(co_in.type_spec)}
ReturnedFields == DOMAIN OrEmpty(co_out.returned)

\* C18: the sheet has no entry until the step that follows the coercion of
\* all its fields, and the entry that step writes has exactly the declared
\* fields as its keys: a declared field the extractor did not return holds
\* None and a returned field that is not declared is not there.
C18_EntryHasDeclaredFields ==
    /\ pc \in {"extract_call", "extract_returned"}
         => co_in.sheet \notin DOMAIN extracted
    /\ pc = "inserted" =>
         /\ co_in.sheet \in DOMAIN extracted
         /\ DOMAIN extracted[co_in.sheet].d = DeclaredFields
         /\ \A k \in DeclaredFields \ ReturnedFields :
              extracted[co_in.sheet].d[k] = Null
         /\ \A k \in ReturnedFields \ DeclaredFields :
              k \notin DOMAIN extracted[co_in.sheet].d

\* an entry was written for an answer that lacks a declared field and holds
\* an undeclared one next to a declared one that coerced to a value
C18_Witness ==
    /\ pc = "inserted"
    /\ DeclaredFields \ ReturnedFields # {}
    /\ ReturnedFields \ DeclaredFields # {}
    /\ \E k \in DeclaredFields \cap ReturnedFields :
         extracted[co_in.sheet].d[k] # Null
    /\ DOMAIN extracted[co_in.sheet].d = DeclaredFields

=============================================================================
